---- MODULE Spec2Model ----
(***************************************************************************)
(* A model of server.js: an Express image server that stores uploads on    *)
(* local disk, lists them, serves them and deletes them.                   *)
(*                                                                         *)
(* File names, URLs and route parameters are strings of characters, here   *)
(* sequences of one-character strings, so that concatenation, extension    *)
(* extraction, lower-casing and path joining are computed and not assumed. *)
(* MIME types, origins and messages are only ever compared, and stay TLA+  *)
(* strings.                                                                *)
(***************************************************************************)
EXTENDS Naturals, Sequences, FiniteSets, TLC

VARIABLES
  fs,      \* the filesystem: a function from absolute paths to file contents
  now,     \* the wall clock read by Date.now(), in milliseconds
  reqs,    \* the request in flight on each connection
  out,     \* the request answered in this turn of the event loop, with its
           \* response
  wr,      \* history: the write compressImage made in this turn
  nreq,    \* how many requests have arrived
  gone,    \* history: storage files removed by DELETE and not written since
  meta     \* history: for each file written, the clock reading and the
           \* original name its stored name was made from, and the route
           \* that wrote it ("partial" for what a failed write left)

vars == <<fs, now, reqs, out, wr, nreq, gone, meta>>

----------------------------------------------------------------------------
\* Bounds of the model.

\* The clock runs from 1 to MaxTime.
MaxTime == 2

\* At most MaxReqs requests arrive in a behaviour.
MaxReqs == 2

----------------------------------------------------------------------------
\* Configuration (server.js:17-28).

\* process.env.MAX_FILES; the default is 20, the model runs with 2.
MAX_FILES == 2

\* process.env.MAX_FILE_SIZE, default 2 MiB.
MAX_FILE_SIZE == 2 * 1024 * 1024

ALLOWED_ORIGINS == {"https://soulcraftbd.com"}

ALLOWED_TYPES == {"image/jpeg", "image/png", "image/webp"}

UPLOADS_DIR == <<"u", "p", "l", "o", "a", "d", "s">>

UPLOADS_URL ==
  <<"h", "t", "t", "p", "s", ":", "/", "/", "c", "d", "n", ".",
    "s", "o", "u", "l", "c", "r", "a", "f", "t", "b", "d", ".", "c", "o", "m",
    "/", "u", "p", "l", "o", "a", "d", "s">>

\* path.resolve() in the container: WORKDIR /app.
DirName == << <<"a", "p", "p">> >>

----------------------------------------------------------------------------
\* Strings.

Digit == <<"0", "1", "2", "3", "4", "5", "6", "7", "8", "9">>

\* The decimal numeral of n, as a template literal prints a number.
RECURSIVE ToStr(_)
ToStr(n) ==
  IF n < 10 THEN <<Digit[n + 1]>>
  ELSE ToStr(n \div 10) \o <<Digit[(n % 10) + 1]>>

Upper == <<"A", "B", "C", "D", "E", "F", "G", "H", "I", "J", "K", "L", "M",
           "N", "O", "P", "Q", "R", "S", "T", "U", "V", "W", "X", "Y", "Z">>

Lower == <<"a", "b", "c", "d", "e", "f", "g", "h", "i", "j", "k", "l", "m",
           "n", "o", "p", "q", "r", "s", "t", "u", "v", "w", "x", "y", "z">>

LowerChar(c) ==
  IF \E i \in 1..26 : Upper[i] = c
  THEN Lower[CHOOSE i \in 1..26 : Upper[i] = c]
  ELSE c

\* String.prototype.toLowerCase.
ToLowerCase(s) == [i \in 1..Len(s) |-> LowerChar(s[i])]

\* The position of the last c in s, 0 when there is none.
LastIndexOf(s, c) ==
  IF \E i \in 1..Len(s) : s[i] = c
  THEN CHOOSE i \in 1..Len(s) : s[i] = c /\ \A j \in (i + 1)..Len(s) : s[j] # c
  ELSE 0

\* path.basename: what follows the last "/".
BaseName(s) == SubSeq(s, LastIndexOf(s, "/") + 1, Len(s))

\* path.extname: from the last "." of the base name to its end; empty when
\* there is no "." or the base name starts with its only ".".
ExtName(s) ==
  LET b == BaseName(s)
      d == LastIndexOf(b, ".")
  IN  IF d <= 1 THEN <<>> ELSE SubSeq(b, d, Len(b))

\* s.split("/").
RECURSIVE Split(_)
Split(s) ==
  IF \E i \in 1..Len(s) : s[i] = "/"
  THEN LET i == CHOOSE k \in 1..Len(s) : s[k] = "/" /\ \A j \in 1..(k - 1) : s[j] # "/"
       IN  <<SubSeq(s, 1, i - 1)>> \o Split(SubSeq(s, i + 1, Len(s)))
  ELSE <<s>>

\* path.normalize on the segments of an absolute path: "" and "." vanish,
\* ".." removes the segment before it and stays at the root.
RECURSIVE Normalize(_, _)
Normalize(done, segs) ==
  IF segs = <<>> THEN done
  ELSE LET h == Head(segs)
           t == Tail(segs)
       IN  IF h = <<>> \/ h = <<".">> THEN Normalize(done, t)
           ELSE IF h = <<".", ".">>
                THEN Normalize(IF done = <<>> THEN <<>>
                               ELSE SubSeq(done, 1, Len(done) - 1), t)
                ELSE Normalize(Append(done, h), t)

\* path.join(__dirname, UPLOADS_DIR, name): an absolute path, as its segments.
PathJoin(name) == Normalize(<<>>, DirName \o <<UPLOADS_DIR>> \o Split(name))

\* The storage directory.
StorageDir == Normalize(<<>>, DirName \o <<UPLOADS_DIR>>)

\* A naming policy that reads the clock in units of two milliseconds.
StoredNameCoarse(t, originalname) == ToStr(t \div 2) \o <<"-">> \o originalname

\* `${Date.now()}-${originalname}` (server.js:124, 148).
StoredName(t, originalname) == ToStr(t) \o <<"-">> \o originalname

\* A url made from what follows the first "-" of the stored name, the
\* original name.
UrlOfOriginal(filename) ==
  LET i == CHOOSE k \in 1..Len(filename) :
             filename[k] = "-" /\ \A j \in 1..(k - 1) : filename[j] # "-"
  IN  UPLOADS_URL \o <<"/">> \o SubSeq(filename, i + 1, Len(filename))

\* `${UPLOADS_URL}/${filename}` (server.js:88, 106).
UrlOf(filename) == UPLOADS_URL \o <<"/">> \o filename

----------------------------------------------------------------------------
\* The filesystem. A path is the sequence of its segments; fs maps the paths
\* of the regular files to their contents. The directories are fixed: the
\* root, __dirname and the storage directory (server.js:31 creates it).

Parent(p) == SubSeq(p, 1, Len(p) - 1)

\* A listing of every file below the root, whatever its directory.
ReaddirDeep(f, dir) == {p[Len(p)] : p \in DOMAIN f}

\* What fs.readdir(dir) yields: the names of the entries of dir.
Readdir(f, dir) ==
  {p[Len(p)] : p \in {q \in DOMAIN f : Len(q) = Len(dir) + 1 /\ Parent(q) = dir}}

\* The filesystem with `content` stored at path p.
Put(f, p, content) ==
  [q \in DOMAIN f \cup {p} |-> IF q = p THEN content ELSE f[q]]

\* An unlink that leaves the file where it is.
RemoveNothing(f, p) == f

\* The filesystem without the file at path p.
Remove(f, p) == [q \in DOMAIN f \ {p} |-> f[q]]

\* The names of the stored files.
Stored(f) == Readdir(f, StorageDir)

ServerJs == <<"s", "e", "r", "v", "e", "r", ".", "j", "s">>

InitFs == [p \in {DirName \o <<ServerJs>>} |-> [enc |-> "raw", of |-> "source"]]

----------------------------------------------------------------------------
\* Uploaded bytes and what compressImage makes of them.

\* A buffer: its bytes (named), its length, and whether sharp can decode it.
Img1    == [bytes |-> "img1", size |-> 100 * 1024, image |-> TRUE]
Img2    == [bytes |-> "img2", size |-> MAX_FILE_SIZE, image |-> TRUE]
Corrupt == [bytes |-> "junk", size |-> 1024, image |-> FALSE]
Huge    == [bytes |-> "huge", size |-> MAX_FILE_SIZE + 1, image |-> TRUE]

JpgExts == {<<".", "j", "p", "g">>, <<".", "j", "p", "e", "g">>}
PngExt  == <<".", "p", "n", "g">>
WebpExt == <<".", "w", "e", "b", "p">>

\* The encoder compressImage picks for a stored name (server.js:73-86):
\* "raw" is the fs.writeFileSync branch.
Encoder(filename) ==
  LET ext == ToLowerCase(ExtName(filename))
  IN  IF ext \in JpgExts THEN "jpeg q80 mozjpeg"
      ELSE IF ext = PngExt THEN "png level9 adaptive"
      ELSE IF ext = WebpExt THEN "webp q80"
      ELSE "raw"

\* The bytes compressImage writes for a buffer under a stored name.
Encode(buffer, filename) == [enc |-> Encoder(filename), of |-> buffer.bytes]

\* sharp rejects a buffer it cannot decode; writeFileSync takes any bytes.
EncodeFails(buffer, filename) == Encoder(filename) # "raw" /\ ~buffer.image

\* What a write that fails midway may leave behind.
Partial == [enc |-> "partial", of |-> "partial"]

----------------------------------------------------------------------------
\* The access-control filter (server.js:34-46). NoOrigin stands for a request
\* without an Origin header.

NoOrigin == ""

\* A filter that asks every request for an Origin header.
CorsRequiresOrigin(origin) == origin \in ALLOWED_ORIGINS

CorsPermits(origin) == origin = NoOrigin \/ origin \in ALLOWED_ORIGINS

----------------------------------------------------------------------------
\* Upload intake (multer, server.js:61-69, 113, 135).

\* An intake that takes every content type.
PartErrorUnfiltered(part, i, maxCount) ==
  IF i > maxCount THEN "LIMIT_UNEXPECTED_FILE"
  ELSE IF part.buffer.size > MAX_FILE_SIZE THEN "LIMIT_FILE_SIZE"
  ELSE ""

\* An intake that takes every size.
PartErrorUnlimited(part, i, maxCount) ==
  IF i > maxCount THEN "LIMIT_UNEXPECTED_FILE"
  ELSE IF part.mimetype \notin ALLOWED_TYPES THEN "FILTER"
  ELSE ""

\* The error multer raises for the i-th file part of a field that takes
\* maxCount files, "" when it takes the part: the field's file count, then
\* fileFilter, then the size limit while buffering.
PartError(part, i, maxCount) ==
  IF i > maxCount THEN "LIMIT_UNEXPECTED_FILE"
  ELSE IF part.mimetype \notin ALLOWED_TYPES THEN "FILTER"
  ELSE IF part.buffer.size > MAX_FILE_SIZE THEN "LIMIT_FILE_SIZE"
  ELSE ""

\* The first error multer meets in parts i.. of a request, in arrival order,
\* "" when there is none (single: maxCount 1, array: MAX_FILES).
RECURSIVE MulterError(_, _, _)
MulterError(parts, i, maxCount) ==
  IF i > Len(parts) THEN ""
  ELSE IF PartError(parts[i], i, maxCount) # "" THEN PartError(parts[i], i, maxCount)
  ELSE MulterError(parts, i + 1, maxCount)

\* err.message of a multer error.
MulterMessage(code) ==
  IF code = "FILTER" THEN "Invalid file type (JPEG, PNG, WebP only)."
  ELSE IF code = "LIMIT_FILE_SIZE" THEN "File too large"
  ELSE "Unexpected field"

\* The message of the 400 response of POST /upload/single (server.js:117-120).
SingleErrorMessage(code) ==
  IF code = "LIMIT_FILE_SIZE" THEN "File too large (max 2MB)"
  ELSE MulterMessage(code)

\* The message of the 400 response of POST /upload/multiple (server.js:139-142).
MultipleErrorMessage(code) ==
  IF code = "LIMIT_FILE_SIZE" THEN "Each file must be under 2MB"
  ELSE MulterMessage(code)

----------------------------------------------------------------------------
\* Requests and responses.

\* The connections requests arrive on; each carries one request at a time.
Conns == {1, 2}

NoFile == [enc |-> "none", of |-> "none"]

\* A response. `urls` holds the urls of /upload/multiple and, as a sequence of
\* one, the url of /upload/single; `images` is the list of GET /images (its
\* order is the directory's and is left out); `file` is a served file's bytes.
Resp(status, type, success, message, urls, images, file) ==
  [status |-> status, type |-> type, success |-> success, message |-> message,
   urls |-> urls, images |-> images, file |-> file]

Json(status, success, message) ==
  Resp(status, "json", success, message, <<>>, {}, NoFile)

\* Express's final handler: an HTML page for an error no route answered
\* (status 500 unless the error names one) or for a path no route matched.
Html(status, message) == Resp(status, "html", FALSE, message, <<>>, {}, NoFile)

NoResp == Resp(0, "none", FALSE, "", <<>>, {}, NoFile)

\* A connection's request. pc is where its handler stands: "toFile" waits
\* for sharp, "resume" is the upload loop between two synchronous writes,
\* "done" is answered.
\* History: `cause` names why an error response was sent; `namedAt` is the
\* clock reading r.filename was made from.
Idle ==
  [kind |-> "none", pc |-> "idle", origin |-> "", param |-> <<>>,
   multipart |-> FALSE, parts |-> <<>>, idx |-> 0, filename |-> <<>>,
   urls |-> <<>>, resp |-> NoResp,
   cause |-> "", namedAt |-> 0]

New(kind, origin, param, multipart, parts) ==
  [Idle EXCEPT !.kind = kind, !.origin = origin, !.param = param,
               !.multipart = multipart, !.parts = parts]

Respond(r, resp, cause) == [r EXCEPT !.pc = "done", !.resp = resp, !.cause = cause]

\* cors() hands the callback's error to next(); no route runs and Express's
\* final handler answers (server.js:41).
CorsReject(r) == Respond(r, Html(500, "Not allowed by CORS"), "cors")

\* No write made in this turn. Otherwise wr holds the path written, whether
\* the write succeeded, the stamp of the writer (the clock reading and the
\* original name its stored name was made from), whether the path was free,
\* and the stamp of the file that held it.
NoStamp == [t |-> 0, name |-> <<>>, kind |-> "none"]
NoWrite == [path |-> <<>>, ok |-> FALSE, stamp |-> NoStamp, fresh |-> FALSE,
            prev |-> NoStamp]

\* The event loop is between two turns: what the last turn sent and wrote is
\* past.
Quiet == out = Idle /\ wr = NoWrite

\* A request may arrive on a connection that carries none; of two free
\* connections the first is taken.
CanArrive(c) ==
  /\ Quiet
  /\ nreq < MaxReqs
  /\ reqs[c].pc = "idle"
  /\ \A d \in Conns : reqs[d].pc = "idle" => c <= d

\* After a step, connection c holds r, or is free again with r answered.
Held(r) == IF r.pc = "done" THEN Idle ELSE r
Sent(r) == IF r.pc = "done" THEN r ELSE Idle

\* Connection c's request becomes r; the disk is not touched.
Set(c, r) ==
  /\ reqs' = [reqs EXCEPT ![c] = Held(r)]
  /\ out' = Sent(r)
  /\ wr' = NoWrite
  /\ UNCHANGED <<fs, gone, meta>>

----------------------------------------------------------------------------
\* The inputs of the model.

Origins == {NoOrigin, "https://soulcraftbd.com", "https://evil.example"}

APng == <<"a", ".", "p", "n", "g">>
CJpg == <<"c", ".", "J", "P", "G">>
NTxt == <<"n", ".", "t", "x", "t">>
DPdf == <<"d", ".", "p", "d", "f">>

\* The file parts a request may carry.
Parts ==
  { [originalname |-> APng, mimetype |-> "image/png",       buffer |-> Img1],
    [originalname |-> CJpg, mimetype |-> "image/jpeg",      buffer |-> Corrupt],
    [originalname |-> NTxt, mimetype |-> "image/webp",      buffer |-> Corrupt],
    [originalname |-> DPdf, mimetype |-> "application/pdf", buffer |-> Img1],
    [originalname |-> APng, mimetype |-> "image/png",       buffer |-> Huge] }

\* The parts that pass the intake and that sharp can encode: two images under
\* one name.
GoodParts ==
  { [originalname |-> APng, mimetype |-> "image/png",  buffer |-> Img1],
    [originalname |-> APng, mimetype |-> "image/png",  buffer |-> Img2] }

Batches(P, n) == UNION {[1..k -> P] : k \in 0..n}

\* The bodies of the upload requests of each specification.
SingleBodies      == Batches(GoodParts, 1)
MultipleBodies    == Batches(GoodParts, MAX_FILES)
AnySingleBodies   == Batches(Parts, 1)
AnyMultipleBodies == Batches(Parts, MAX_FILES + 1)

\* The names the requests ask for: what an upload may have stored, and one
\* that climbs out of the storage directory.
FileNames == {StoredName(t, n) : t \in 0..MaxTime, n \in {APng, NTxt}}

\* Those of them that the parts of GoodParts may have stored.
GoodNames == {StoredName(t, APng) : t \in 0..MaxTime}

Traversal == <<".", ".", "/">> \o ServerJs

Outcomes == {"ok", "fail", "partial"}

----------------------------------------------------------------------------
\* GET /images, GET /uploads/<name> and DELETE /images/:filename touch the
\* disk once, in one asynchronous operation whose callback answers; nothing
\* else of the request reads or writes shared state. Each is one action,
\* taken at the moment of that operation.

\* GET /images (server.js:102-109).

\* The response to a directory listing `files`.
ListResponse(files) ==
  Resp(200, "json", TRUE, "", <<>>, {UrlOf(file) : file \in files}, NoFile)

\* ok = FALSE is a read error of fs.readdir.
List(c, origin, ok) ==
  /\ CanArrive(c)
  /\ LET r == New("list", origin, <<>>, FALSE, <<>>)
     IN  Set(c, IF ~CorsPermits(origin) THEN CorsReject(r)
                ELSE IF ok
                THEN Respond(r, ListResponse(Readdir(fs, StorageDir)), "")
                ELSE Respond(r, Json(500, FALSE, "EIO: i/o error, scandir"),
                             "readdir"))
  /\ nreq' = nreq + 1
  /\ UNCHANGED now

\* GET /uploads/<name> (express.static, server.js:51-58).

\* The response of the static route for the path `name` below /uploads.
StaticResponse(f, name) ==
  LET p == PathJoin(name)
  IN  IF p \in DOMAIN f /\ Parent(p) = StorageDir
      THEN Resp(200, "file", FALSE, "", <<>>, {}, f[p])
      ELSE Html(404, "Cannot GET")

Static(c, origin, name) ==
  /\ CanArrive(c)
  /\ LET r == New("static", origin, name, FALSE, <<>>)
         resp == StaticResponse(fs, name)
     IN  Set(c, IF ~CorsPermits(origin) THEN CorsReject(r)
                ELSE Respond(r, resp, IF resp.status = 200 THEN "" ELSE "nofile"))
  /\ nreq' = nreq + 1
  /\ UNCHANGED now

\* DELETE /images/:filename (server.js:160-169).

\* The file fs.unlink is asked to remove.
DeletePath(param) == PathJoin(param)

\* Whether fs.unlink removes p: it is a file, and the system lets it go.
Unlinks(f, p, ok) == p \in DOMAIN f /\ ok

DeleteResponse(removed) ==
  IF removed THEN Json(200, TRUE, "Deleted successfully")
  ELSE Json(404, FALSE, "File not found or already deleted")

\* ok = FALSE is a refusal of the system to remove an existing file.
Delete(c, origin, param, ok) ==
  /\ CanArrive(c)
  /\ LET r == New("delete", origin, param, FALSE, <<>>)
         p == DeletePath(param)
         removed == CorsPermits(origin) /\ Unlinks(fs, p, ok)
         stored == removed /\ Parent(p) = StorageDir
     IN  /\ fs' = IF removed THEN Remove(fs, p) ELSE fs
         /\ meta' = IF removed THEN Remove(meta, p) ELSE meta
         /\ gone' = IF stored THEN gone \cup {p[Len(p)]} ELSE gone
         /\ out' = IF ~CorsPermits(origin) THEN CorsReject(r)
                   ELSE Respond(r, DeleteResponse(removed),
                                IF removed THEN ""
                                ELSE IF p \in DOMAIN fs THEN "unlink" ELSE "missing")
  /\ wr' = NoWrite
  /\ nreq' = nreq + 1
  /\ UNCHANGED <<now, reqs>>

----------------------------------------------------------------------------
\* compressImage and the upload routes (server.js:72-89, 112-157).

\* The response of a finished upload: {success, url} or {success, urls}.
UploadResponse(urls) == Resp(200, "json", TRUE, "", urls, {}, NoFile)

\* A loop that visits the files last to first.
VisitsReversed(parts) == [i \in 1..Len(parts) |-> parts[Len(parts) + 1 - i]]

\* The files of a request that the upload loop visits, in order.
Visits(parts) == parts

\* `${Date.now()}-${file.originalname}` for file i of request r, read off
\* the clock at t.
NameFile(r, i, t) ==
  [r EXCEPT !.idx = i, !.namedAt = t,
            !.filename = StoredName(t, Visits(r.parts)[i].originalname)]

\* The upload handler of request r once compressImage has written r's
\* current file, at clock reading t: it keeps the url and, past the last
\* file, answers; otherwise it goes on to the next file, naming it at once
\* when sharp is to encode it.
Advance(r, t) ==
  LET r1 == [r EXCEPT !.urls = Append(@, UrlOf(r.filename))]
      next == NameFile(r1, r.idx + 1, t)
  IN  IF r.idx + 1 > Len(Visits(r.parts))
      THEN Respond(r1, UploadResponse(r1.urls), "")
      ELSE IF Encoder(next.filename) = "raw"
      THEN [r1 EXCEPT !.pc = "resume"]
      ELSE [next EXCEPT !.pc = "toFile"]

\* The write of compressImage for request r of connection c, storing
\* `content` under r.filename with outcome o: "ok", or a failure that leaves
\* the disk as it was ("fail") or leaves a partial file ("partial"). A failure
\* is thrown to the route's catch, which answers 500.
DoWrite(c, r, content, o) ==
  LET p == PathJoin(r.filename)
      name == p[Len(p)]
      r1 == IF o = "ok" THEN Advance(r, now)
            ELSE Respond(r, Json(500, FALSE, "ENOSPC: no space left on device, write"),
                         "write")
      created == o # "fail" /\ Parent(p) = StorageDir
      stamp == [t |-> r.namedAt, name |-> Visits(r.parts)[r.idx].originalname,
                kind |-> IF o = "ok" THEN r.kind ELSE "partial"]
  IN  /\ fs' = IF o = "ok" THEN Put(fs, p, content)
               ELSE IF o = "partial" THEN Put(fs, p, Partial)
               ELSE fs
      /\ meta' = IF o = "fail" THEN meta ELSE Put(meta, p, stamp)
      /\ gone' = IF created THEN gone \ {name} ELSE gone
      /\ reqs' = [reqs EXCEPT ![c] = Held(r1)]
      /\ out' = Sent(r1)
      /\ wr' = [path |-> p, ok |-> o = "ok", stamp |-> stamp,
                fresh |-> p \notin DOMAIN fs,
                prev |-> IF p \in DOMAIN meta THEN meta[p] ELSE NoStamp]

\* The upload loop of request r at file i: past the last file it answers;
\* otherwise it names the file from the clock and calls compressImage, which
\* writes at once (fs.writeFileSync) or hands the buffer to sharp.
Loop(c, r, i) ==
  IF i > Len(Visits(r.parts))
  THEN Set(c, Respond(r, UploadResponse(r.urls), ""))
  ELSE LET r1 == NameFile(r, i, now)
           file == Visits(r.parts)[i]
       IN  IF Encoder(r1.filename) = "raw"
           THEN \E o \in Outcomes : DoWrite(c, r1, Encode(file.buffer, r1.filename), o)
           ELSE Set(c, [r1 EXCEPT !.pc = "toFile"])

\* POST /upload/single. Without a file part (or without a multipart body)
\* req.file is undefined and reading its originalname throws into the catch.
ArriveSingle(c, origin, multipart, parts) ==
  /\ CanArrive(c)
  /\ LET r == New("single", origin, <<>>, multipart, parts)
         code == IF multipart THEN MulterError(parts, 1, 1) ELSE ""
     IN  IF ~CorsPermits(origin) THEN Set(c, CorsReject(r))
         ELSE IF code # ""
         THEN Set(c, Respond(r, Json(400, FALSE, SingleErrorMessage(code)), code))
         ELSE IF ~multipart \/ parts = <<>>
         THEN Set(c, Respond(r, Json(500, FALSE,
                "Cannot read properties of undefined (reading 'originalname')"),
                "nofile"))
         ELSE Loop(c, r, 1)
  /\ nreq' = nreq + 1
  /\ UNCHANGED now

\* POST /upload/multiple. Without a multipart body req.files is undefined and
\* iterating it throws into the catch.
ArriveMultiple(c, origin, multipart, parts) ==
  /\ CanArrive(c)
  /\ LET r == New("multiple", origin, <<>>, multipart, parts)
         code == IF multipart THEN MulterError(parts, 1, MAX_FILES) ELSE ""
     IN  IF ~CorsPermits(origin) THEN Set(c, CorsReject(r))
         ELSE IF code # ""
         THEN Set(c, Respond(r, Json(400, FALSE, MultipleErrorMessage(code)), code))
         ELSE IF ~multipart
         THEN Set(c, Respond(r, Json(500, FALSE, "req.files is not iterable"), "nofile"))
         ELSE Loop(c, r, 1)
  /\ nreq' = nreq + 1
  /\ UNCHANGED now

\* sharp(buffer)...toFile(outputPath) completes: it rejects a buffer it cannot
\* decode, and otherwise writes with outcome o; its promise resolves and the
\* handler goes on.
ToFile(c, o) ==
  /\ Quiet
  /\ reqs[c].pc = "toFile"
  /\ LET r == reqs[c]
         file == Visits(r.parts)[r.idx]
     IN  IF EncodeFails(file.buffer, r.filename)
         THEN /\ o = "fail"
              /\ Set(c, Respond(r, Json(500, FALSE,
                     "Input buffer contains unsupported image format"), "encode"))
         ELSE DoWrite(c, r, Encode(file.buffer, r.filename), o)
  /\ UNCHANGED <<now, nreq>>

\* The upload loop goes on to a file that fs.writeFileSync is to write.
Resume(c) ==
  /\ Quiet
  /\ reqs[c].pc = "resume"
  /\ Loop(c, reqs[c], reqs[c].idx + 1)
  /\ UNCHANGED <<now, nreq>>

----------------------------------------------------------------------------
\* The clock advances.
Tick ==
  /\ Quiet
  /\ now < MaxTime
  /\ now' = now + 1
  /\ UNCHANGED <<fs, reqs, out, wr, nreq, gone, meta>>

\* The turn of the event loop ends.
Settle ==
  /\ ~Quiet
  /\ out' = Idle
  /\ wr' = NoWrite
  /\ UNCHANGED <<fs, now, reqs, nreq, gone, meta>>

\* A file stored before the server started, at clock reading 0.
OldName == StoredName(0, APng)
OldPath == StorageDir \o <<OldName>>
OldFs   == Put(InitFs, OldPath, Encode(Img1, OldName))

\* The server has started; the storage directory, which the start keeps as
\* it finds it (server.js:31), holds a file of an earlier run.
Init ==
  /\ fs = OldFs
  /\ now = 1
  /\ reqs = [c \in Conns |-> Idle]
  /\ out = Idle
  /\ wr = NoWrite
  /\ nreq = 0
  /\ gone = {}
  /\ meta = [p \in DOMAIN fs |->
               IF p = OldPath THEN [t |-> 0, name |-> APng, kind |-> "single"]
               ELSE NoStamp]

\* Concurrent requests on every connection, from permitted origins, with
\* file parts that pass the intake; a write that fails leaves no file.
Next ==
  \/ Tick
  \/ Settle
  \/ \E c \in Conns : CanArrive(c) /\ \E origin \in ALLOWED_ORIGINS, ok \in BOOLEAN :
       List(c, origin, ok)
  \/ \E c \in Conns : CanArrive(c) /\ \E origin \in ALLOWED_ORIGINS, name \in GoodNames :
       Static(c, origin, name)
  \/ \E c \in Conns : CanArrive(c) /\
       \E origin \in ALLOWED_ORIGINS, param \in GoodNames, ok \in BOOLEAN :
         Delete(c, origin, param, ok)
  \/ \E c \in Conns : CanArrive(c) /\ \E origin \in ALLOWED_ORIGINS, parts \in SingleBodies :
       ArriveSingle(c, origin, TRUE, parts)
  \/ \E c \in Conns : CanArrive(c) /\ \E origin \in ALLOWED_ORIGINS, parts \in MultipleBodies :
       ArriveMultiple(c, origin, TRUE, parts)
  \/ \E c \in Conns, o \in Outcomes \ {"partial"} : ToFile(c, o)

Spec == Init /\ [][Next]_vars

\* One request at a time, on the first connection, from every origin and
\* with every file part.
NextSeq ==
  \/ Tick
  \/ Settle
  \/ CanArrive(1) /\ \E origin \in Origins, ok \in BOOLEAN : List(1, origin, ok)
  \/ CanArrive(1) /\ \E origin \in Origins, name \in FileNames :
       Static(1, origin, name)
  \/ CanArrive(1) /\
       \E origin \in Origins, param \in FileNames \cup {Traversal}, ok \in BOOLEAN :
         Delete(1, origin, param, ok)
  \/ CanArrive(1) /\ \E origin \in Origins, multipart \in BOOLEAN, parts \in AnySingleBodies :
       (multipart \/ parts = <<>>) /\ ArriveSingle(1, origin, multipart, parts)
  \/ CanArrive(1) /\ \E origin \in Origins, multipart \in BOOLEAN, parts \in AnyMultipleBodies :
       (multipart \/ parts = <<>>) /\ ArriveMultiple(1, origin, multipart, parts)
  \/ \E o \in Outcomes : ToFile(1, o)
  \/ Resume(1)

SpecSeq == Init /\ [][NextSeq]_vars

----------------------------------------------------------------------------
\* The claims.

\* The storage directory of filesystem f: its files and their contents.
StorageOf(f) ==
  [p \in {q \in DOMAIN f : Len(q) = Len(StorageDir) + 1 /\
                           SubSeq(q, 1, Len(StorageDir)) = StorageDir} |-> f[p]]

\* A step answers a request: out' is the request, with its response.
Answers == out' # Idle

IsUpload(r) == r.kind \in {"single", "multiple"}

HasBadType(parts) ==
  \E i \in 1..Len(parts) : parts[i].mimetype \notin ALLOWED_TYPES

\* C1: an upload request with a file part whose content type is outside
\* ALLOWED_TYPES is answered with an error in the step it arrives in, never
\* reaches the upload loop, and leaves the storage directory, files and
\* contents, as it was.
C1Theorem ==
  [][/\ \A c \in Conns : ~HasBadType(reqs'[c].parts)
     /\ (Answers /\ IsUpload(out') /\ HasBadType(out'.parts)) =>
          /\ out'.resp.status \in {400, 500}
          /\ ~out'.resp.success
          /\ out'.resp.urls = <<>>
          /\ wr' = NoWrite
          /\ StorageOf(fs') = StorageOf(fs)]_vars

\* A batch whose first file is allowed and whose second is not has been
\* rejected by fileFilter.
C1Witness ==
  /\ out.kind = "multiple"
  /\ out.cause = "FILTER"
  /\ Len(out.parts) = 2
  /\ out.parts[1].mimetype \in ALLOWED_TYPES
  /\ out.parts[2].mimetype \notin ALLOWED_TYPES
  /\ out.resp.status = 400

\* C7: the access-control filter rejects a request exactly when its origin
\* is present and outside ALLOWED_ORIGINS; a rejected request is answered
\* in the step it arrives in, no handler holds it, nothing is written and
\* the filesystem is as it was.
C7Theorem ==
  [][/\ \A c \in Conns :
          reqs'[c].origin = "" \/ reqs'[c].origin \in ALLOWED_ORIGINS
     /\ Answers =>
          /\ out'.cause = "cors" <=>
               ~(out'.origin = "" \/ out'.origin \in ALLOWED_ORIGINS)
          /\ out'.cause = "cors" =>
               /\ fs' = fs
               /\ wr' = NoWrite
               /\ reqs' = reqs
               /\ ~out'.resp.success]_vars

\* A DELETE of a stored file from an origin outside the list has been
\* rejected, and the file is still there.
C7Witness ==
  /\ out.kind = "delete"
  /\ out.cause = "cors"
  /\ out.origin \notin ALLOWED_ORIGINS
  /\ DeletePath(out.param) \in DOMAIN fs


\* C5 as stated: a DELETE that the filter admits, for a filename that is
\* not in the storage directory, is answered 404 with success false and
\* leaves the storage directory as it was.
C5Original ==
  [][(Answers /\ out'.kind = "delete" /\ out'.cause # "cors" /\
      out'.param \notin Stored(fs)) =>
       /\ out'.resp.status = 404
       /\ ~out'.resp.success
       /\ StorageOf(fs') = StorageOf(fs)]_vars

\* The size-specific messages of the two upload routes, and the messages of
\* the other intake failures.
SizeMessages == {"File too large (max 2MB)", "Each file must be under 2MB"}
OtherMessages == {"Invalid file type (JPEG, PNG, WebP only).", "Unexpected field"}

HasTooBig(parts) ==
  \E i \in 1..Len(parts) : parts[i].buffer.size > MAX_FILE_SIZE

\* The files the upload field of request r takes.
FieldCount(r) == IF r.kind = "single" THEN 1 ELSE MAX_FILES

\* The first part of r that the intake refuses is refused for its size: it
\* is within the field's count and of an allowed type, as is every part
\* before it.
TooBigFirst(r) ==
  \E i \in 1..Len(r.parts) :
    /\ i <= FieldCount(r)
    /\ r.parts[i].buffer.size > MAX_FILE_SIZE
    /\ \A j \in 1..i : r.parts[j].mimetype \in ALLOWED_TYPES

\* C9 as stated: an upload that the filter admits and that carries a file
\* larger than MAX_FILE_SIZE is answered 400 with a size-specific message,
\* and nothing is written.
C9Original ==
  [][(Answers /\ IsUpload(out') /\ out'.cause # "cors" /\ HasTooBig(out'.parts)) =>
       /\ out'.resp.status = 400
       /\ out'.resp.message \in SizeMessages
       /\ StorageOf(fs') = StorageOf(fs)]_vars

\* C9: an upload that the filter admits and whose first refused part is
\* refused for being larger than MAX_FILE_SIZE is answered, in the step it
\* arrives in, 400 with the size-specific message of its route, which is
\* none of the messages of the other intake failures; nothing is written.
C9Theorem ==
  [][/\ \A c \in Conns : ~HasTooBig(reqs'[c].parts)
     /\ (Answers /\ IsUpload(out') /\ out'.cause # "cors" /\ TooBigFirst(out')) =>
          /\ out'.resp.status = 400
          /\ ~out'.resp.success
          /\ out'.resp.message \in SizeMessages \ OtherMessages
          /\ out'.resp.message # "File too large"
          /\ wr' = NoWrite
          /\ StorageOf(fs') = StorageOf(fs)]_vars

\* A batch of an allowed file and an oversized one has been rejected for
\* the size.
C9Witness ==
  /\ out.kind = "multiple"
  /\ out.cause = "LIMIT_FILE_SIZE"
  /\ Len(out.parts) = 2
  /\ ~HasBadType(out.parts)
  /\ out.parts[2].buffer.size > MAX_FILE_SIZE
  /\ out.resp.message = "Each file must be under 2MB"

\* C10 as stated: a validation error (content type, size, origin) is
\* answered 400, a DELETE of a missing file 404, and 500 is answered only
\* when a directory read, an encode or a write fails.
C10Original ==
  out.pc = "done" =>
    /\ out.cause \in {"FILTER", "LIMIT_FILE_SIZE", "cors"} => out.resp.status = 400
    /\ out.cause = "missing" => out.resp.status = 404
    /\ out.resp.status = 500 => out.cause \in {"readdir", "encode", "write"}

\* Two stamps of the same millisecond and the same original name.
SameStamp(a, b) == a.t = b.t /\ a.name = b.name

\* The paths of the storage directory that hold a file before and after a
\* step.
Stays == DOMAIN StorageOf(fs) \cap DOMAIN StorageOf(fs')

\* C2 as stated: a successful write of an upload creates a path that held
\* no file, and no stored file's content changes while the file exists.
C2Original ==
  [][/\ wr'.ok => wr'.fresh
     /\ \A p \in Stays : fs'[p] = fs[p]]_vars

\* C2: a write of an upload lands on a path that holds a file only when
\* the file's stored name was made in the same millisecond from the same
\* original name, and the content of a stored file changes only by such a
\* write to its path.
C2Theorem ==
  [][/\ (wr' # NoWrite /\ ~wr'.fresh) => SameStamp(wr'.prev, wr'.stamp)
     /\ \A p \in Stays :
          fs'[p] # fs[p] => (wr'.path = p /\ SameStamp(meta[p], wr'.stamp))]_vars

\* An upload has written over a file that the other upload route stored
\* under the same name.
C2Witness ==
  /\ wr.ok
  /\ ~wr.fresh
  /\ SameStamp(wr.prev, wr.stamp)
  /\ wr.prev.kind # wr.stamp.kind
  /\ wr.path \in DOMAIN fs

\* C3: a successful GET /images answers exactly the urls UPLOADS_URL + "/" +
\* name of the files that are in the storage directory when it reads it.
C3Theorem ==
  (out.kind = "list" /\ out.resp.status = 200) =>
    /\ out.resp.success
    /\ out.resp.images =
         {UPLOADS_URL \o <<"/">> \o p[Len(p)] : p \in DOMAIN StorageOf(fs)}

\* A listing has been answered after an upload added a file to the
\* directory.
C3Witness ==
  /\ out.kind = "list"
  /\ out.resp.status = 200
  /\ Cardinality(out.resp.images) = 2
  /\ Cardinality(DOMAIN StorageOf(fs)) = 2

\* C4: while a file that DELETE removed from the storage directory has not
\* been written again, an answered GET /images leaves its url out and an
\* answered GET /uploads/<name> for it is 404.
C4Theorem ==
  /\ (out.kind = "list" /\ out.resp.status = 200) =>
       \A name \in gone : UPLOADS_URL \o <<"/">> \o name \notin out.resp.images
  /\ (out.kind = "static" /\ out.cause # "cors" /\ out.param \in gone) =>
       out.resp.status = 404

\* A GET /uploads/<name> for a deleted file has been answered.
C4Witness ==
  /\ out.kind = "static"
  /\ out.param \in gone
  /\ out.resp.status = 404

\* The stored name in a url: the url without UPLOADS_URL and the "/".
NameInUrl(url) == SubSeq(url, Len(UPLOADS_URL) + 2, Len(url))

\* GET /uploads/<name> and GET /images expose `content` under `name` in
\* filesystem f.
Exposed(f, name, content) ==
  /\ StaticResponse(f, name).status = 200
  /\ StaticResponse(f, name).file = content
  /\ (UPLOADS_URL \o <<"/">> \o name) \in ListResponse(Readdir(f, StorageDir)).images

\* A successful single upload answers the url of a stored file whose content
\* is the encoding of the uploaded bytes, and both routes expose it.
C8Stores ==
  (Answers /\ out'.kind = "single" /\ out'.resp.status = 200) =>
    LET name == NameInUrl(out'.resp.urls[1])
        p == StorageDir \o <<name>>
    IN  /\ Len(out'.resp.urls) = 1
        /\ p \in DOMAIN fs'
        /\ fs'[p] = Encode(out'.parts[1].buffer, name)
        /\ Exposed(fs', name, fs'[p])

\* A DELETE removes path p in this step.
Deletes(p) ==
  /\ Answers
  /\ out'.kind = "delete"
  /\ out'.resp.status = 200
  /\ DeletePath(out'.param) = p
  /\ p \notin DOMAIN fs'

\* The files a single upload stored.
Singles == {p \in DOMAIN StorageOf(fs) : meta[p].kind = "single"}

\* C8 as stated: the file of a successful single upload is stored with the
\* encoded content and stays, exposed with that content, until a DELETE
\* removes it.
C8Original ==
  [][/\ C8Stores
     /\ \A p \in Singles :
          \/ p \in DOMAIN fs' /\ fs'[p] = fs[p] /\ Exposed(fs', p[Len(p)], fs[p])
          \/ Deletes(p)]_vars

\* C8: the file of a successful single upload is stored with the encoded
\* content and stays, exposed with that content, until a DELETE removes it
\* or an upload whose stored name was made in the same millisecond from the
\* same original name writes to its path.
C8Theorem ==
  [][/\ C8Stores
     /\ \A p \in Singles :
          \/ p \in DOMAIN fs' /\ fs'[p] = fs[p] /\ Exposed(fs', p[Len(p)], fs[p])
          \/ Deletes(p)
          \/ wr'.path = p /\ SameStamp(meta[p], wr'.stamp)]_vars

\* GET /uploads/<name> has served a file that a single upload of this run
\* stored.
C8Witness ==
  /\ out.kind = "static"
  /\ out.resp.status = 200
  /\ PathJoin(out.param) \in Singles
  /\ meta[PathJoin(out.param)].t > 0
  /\ out.resp.file = fs[PathJoin(out.param)]

\* C6: when encoding or writing a file of POST /upload/multiple fails, the
\* answer is 500 without urls; the files written so far are those before
\* the failing one, in request order, and are still stored; the failing
\* step removes no file and touches no path but the failing file's; and the
\* request is over, so no later file is processed.
C6Theorem ==
  [][(Answers /\ out'.kind = "multiple" /\ out'.cause \in {"encode", "write"}) =>
       /\ out'.resp.status = 500
       /\ ~out'.resp.success
       /\ out'.resp.urls = <<>>
       /\ out'.idx = Len(out'.urls) + 1
       /\ out'.idx <= Len(out'.parts)
       /\ \A j \in 1..Len(out'.urls) :
            \E t \in 1..MaxTime :
              LET name == ToStr(t) \o <<"-">> \o out'.parts[j].originalname
              IN  /\ out'.urls[j] = UPLOADS_URL \o <<"/">> \o name
                  /\ StorageDir \o <<name>> \in DOMAIN fs'
       /\ \A p \in DOMAIN fs :
            p \in DOMAIN fs' /\ (fs'[p] # fs[p] => p = PathJoin(out'.filename))
       /\ DOMAIN fs' \subseteq DOMAIN fs \cup {PathJoin(out'.filename)}
       /\ \A c \in Conns : reqs'[c].pc = "idle"]_vars

\* The second file of a batch has failed after the first, of another name,
\* was written.
C6Witness ==
  /\ out.kind = "multiple"
  /\ out.cause \in {"encode", "write"}
  /\ out.idx = 2
  /\ Len(out.urls) = 1
  /\ out.parts[1].originalname # out.parts[2].originalname
  /\ out.resp.status = 500

====
